---- MODULE Spec2Model ----
(***************************************************************************)
(* Level assignment (SetUniqueLevels) and violation detection              *)
(* (CheckLevels) of uncle-bob's checker package, as main() runs them:      *)
(*     packageLevels := checker.SetUniqueLevels(packageMap)                *)
(*     results = checker.CheckLevels(packageMap, packageLevels, strict)    *)
(* followed by main's exit, and, each on its own, the functions            *)
(* HasViolations and contains and the logger of package clog.              *)
(*                                                                         *)
(* A package path is the sequence of its "/"-separated segments, with the  *)
(* surrounding double quotes that Map() leaves on keys and imports already *)
(* removed (every reader of a path in the code trims them first).          *)
(* Level indices are 0-based as in the Go code; TLA+ sequences are 1-based,*)
(* so level index i of a partition p is p[i + 1].                          *)
(***************************************************************************)
EXTENDS Integers, Sequences, FiniteSets, TLC

\* Largest total number of import entries in a package map.
MaxEdges == 3

\* The package paths of the analysed module: m/main, m/a, m/b, m/pkg/u.
Paths ==
    { <<"m", "main">>, <<"m", "a">>, <<"m", "b">>, <<"m", "pkg", "u">> }

\* Each path is enqueued at most once, so no provisional level exceeds the
\* number of paths; BFSStep is guarded by this cap, which C9_Terminates shows
\* is never what stops the loop.
LevelCap == Cardinality(Paths) + 1

VARIABLES
    packageMap,        \* map[string]PackageInfo: path -> [Path, Imports]
    strict,            \* the strict argument of CheckLevels
    pc,                \* "walk", "mapped", "roots", "bfs", "adjust",
                       \* "organize", "call", "check", "done", "exited"; or
                       \* the function or package called on its own:
                       \* "HasViolations", "contains", "clog", "visualize",
                       \* "path"
    topLevelPackages,  \* SetUniqueLevels: the roots, in map iteration order
    packageLevels,     \* SetUniqueLevels: map[string]int
    packagesVisited,   \* SetUniqueLevels: the keys mapped to true
    queue,             \* SetUniqueLevels: the BFS queue
    result,            \* SetUniqueLevels' returned [][]string
    results,           \* CheckLevels: []clog.CheckResult
    i,                 \* CheckLevels: level index of the package under scan
    j,                 \* CheckLevels: position of that package in its level
    k,                 \* CheckLevels: position of the import under scan
    flags,             \* main: the -dot, -html and -3d flags
    exitStatus,        \* main: the status the process ended with
    files,             \* Map: the files of workdir the walk has not reached
    DefaultLogger,     \* clog: the package-level logger
    input,             \* the arguments of a function called on its own
    output             \* and the value it returned

\* The state of main() outside SetUniqueLevels and CheckLevels.
mainVars == << flags, exitStatus, files >>

\* The logger and the functions called on their own.
libVars == << DefaultLogger, input, output >>

vars ==
    << packageMap, strict, pc, topLevelPackages, packageLevels,
       packagesVisited, queue, result, results, i, j, k, mainVars, libVars >>

----------------------------------------------------------------------------
(* Helpers of the checker package *)

\* strings.Contains(e, x): x is a run of consecutive characters of e.
IsSubstring(x, e) ==
    \E a \in 0..(Len(e) - Len(x)) : SubSeq(e, a + 1, a + Len(x)) = x

\* contains comparing with strings.Contains in place of ==.
containsSubstring(s, searchterm) ==
    \E n \in 1..Len(s) : IsSubstring(searchterm, s[n])

\* contains(s, searchterm): some element of the slice equals searchterm.
contains(s, searchterm) == \E n \in 1..Len(s) : s[n] = searchterm

\* containsInCheckResults finding no result, whatever the list holds.
containsInCheckResultsNever(s, searchterm) ==
    \E n \in 1..Len(s) : FALSE

\* containsInCheckResults true as soon as the list holds a result.
containsInCheckResultsAny(s, searchterm) == Len(s) > 0

\* containsInCheckResults(s, searchterm): some result has that message.
containsInCheckResults(s, searchterm) ==
    \E n \in 1..Len(s) : s[n].Message = searchterm

utilityPathPatterns == { "utilities", "common", "pkg", "shared", "lib" }

\* strings.Contains(path, "/" + seg + "/"): seg is a segment that has a
\* segment before it and a segment after it.
ContainsInner(packagePath, seg) ==
    \E n \in 2..(Len(packagePath) - 1) : packagePath[n] = seg

\* strings.HasSuffix(path, "/" + seg): seg is the last segment, not the first.
HasSuffixSegment(packagePath, seg) ==
    Len(packagePath) >= 2 /\ packagePath[Len(packagePath)] = seg

\* strings.Count(path, "/")
CountSlashes(packagePath) == Len(packagePath) - 1

isUtilityPackage(packagePath) ==
    \E pattern \in utilityPathPatterns : ContainsInner(packagePath, pattern)

\* isEntryPointPackage without the "/main" suffix test of line 379.
isEntryPointPackageNoMain(packagePath) ==
    \/ HasSuffixSegment(packagePath, ".")
    \/ ContainsInner(packagePath, "cmd")

isEntryPointPackage(packagePath) ==
    \/ HasSuffixSegment(packagePath, ".")
    \/ HasSuffixSegment(packagePath, "main")
    \/ ContainsInner(packagePath, "cmd")

getPackageDepth(packagePath) ==
    IF isUtilityPackage(packagePath)
    THEN CountSlashes(packagePath) + 1
    ELSE CountSlashes(packagePath)

----------------------------------------------------------------------------
(* The package maps given to the checker *)

\* The sequences of length n over S without a repeated element.
InjectiveSeqs(S, n) ==
    { s \in [1..n -> S] : \A x, y \in 1..n : x # y => s[x] # s[y] }

\* Every order in which a Go map with key set S can be iterated.
IterationOrders(S) == InjectiveSeqs(S, Cardinality(S))

NewPackageInfo(path, imports) == [Path |-> path, Imports |-> imports]

\* The package maps with key set K and at most e import entries in all,
\* each an import of a path of U. Imports are as Map() builds them with
\* AppendStringIfMissing: no path twice in a list.
RECURSIVE MapsOver(_, _, _)
MapsOver(K, U, e) ==
    IF K = {}
    THEN { <<>> }
    ELSE LET p == CHOOSE x \in K : TRUE
         IN  UNION { LET rest == MapsOver(K \ {p}, U, e - n)
                     IN  { (p :> NewPackageInfo(p, l)) @@ m :
                             l \in InjectiveSeqs(U, n), m \in rest } :
                     n \in 0..e }

\* Every package map over Paths with at most e import entries: import
\* cycles, self-imports (a package and its external test package share a
\* directory) and imports of paths that are no key (a directory whose files
\* were all skipped) included.
AllMaps(e) == UNION { MapsOver(K, Paths, e) : K \in SUBSET Paths }

\* The import relation of pm restricted to S has no cycle: S can be emptied
\* by removing, one at a time, a package that imports nothing left in S.
RECURSIVE Acyclic(_, _)
Acyclic(pm, S) ==
    \/ S = {}
    \/ \E p \in S :
          /\ \A n \in 1..Len(pm[p].Imports) : pm[p].Imports[n] \notin S
          /\ Acyclic(pm, S \ {p})

\* The package maps of a module without external test packages: every
\* import is a key, and the import relation has no cycle.
AcyclicMaps(e) ==
    UNION { { pm \in MapsOver(K, K, e) : Acyclic(pm, K) } :
            K \in SUBSET Paths }

\* The package maps with key set K and at most e import entries in all, a
\* path possibly several times in a list: SetUniqueLevels and CheckLevels
\* are exported and take any map, not only one built by Map().
RECURSIVE RepeatMapsOver(_, _, _)
RepeatMapsOver(K, U, e) ==
    IF K = {}
    THEN { <<>> }
    ELSE LET p == CHOOSE x \in K : TRUE
         IN  UNION { LET rest == RepeatMapsOver(K \ {p}, U, e - n)
                     IN  { (p :> NewPackageInfo(p, l)) @@ m :
                             l \in [1..n -> U], m \in rest } :
                     n \in 0..e }

\* Every such map whose imports are keys of the map.
RepeatMaps(e) == UNION { RepeatMapsOver(K, K, e) : K \in SUBSET Paths }

\* packageMap[pkg].Imports, nil for a path that is not a key.
ImportsOf(pm, pkg) == IF pkg \in DOMAIN pm THEN pm[pkg].Imports ELSE <<>>

----------------------------------------------------------------------------
(* SetUniqueLevels *)

Max(x, y) == IF x > y THEN x ELSE y

\* Lines 406-412: some package of the map (the package itself included)
\* lists packageInfo.Path among its imports.
packageIsMentionedInImports(pm, packageInfo) ==
    \E q \in DOMAIN pm : contains(pm[q].Imports, packageInfo.Path)

\* Root detection that keeps the first package it finds and no other.
RootsInOrderFirstOnly(pm, order) ==
    LET NotMentioned(p) == ~packageIsMentionedInImports(pm, pm[p])
        roots == SelectSeq(order, NotMentioned)
    IN  IF roots = <<>> THEN roots ELSE << Head(roots) >>

\* Lines 405-418: the packages not mentioned in any import list, in the
\* order the map iteration meets them.
RootsInOrder(pm, order) ==
    LET NotMentioned(p) == ~packageIsMentionedInImports(pm, pm[p])
    IN  SelectSeq(order, NotMentioned)

\* clog's LogLevel constants.
LevelError == 0
LevelWarning == 1
LevelInfo == 2

\* clog.DefaultLogger as the package declares it, nothing written yet.
NewDefaultLogger ==
    [ Writer |-> <<>>, Level |-> LevelInfo, ColorMode |-> TRUE ]

\* The flags -dot, -html and -3d at their default values.
NoFlags == [ dot |-> FALSE, html |-> FALSE, building3d |-> FALSE ]

\* main() is running, the logger is untouched and no function has been
\* called on its own.
Idle ==
    /\ flags = NoFlags
    /\ exitStatus = "running"
    /\ files = <<>>
    /\ DefaultLogger = NewDefaultLogger
    /\ input = <<>>
    /\ output = <<>>

\* SetUniqueLevels has not started.
Start ==
    /\ Idle
    /\ strict = FALSE
    /\ pc = "roots"
    /\ topLevelPackages = <<>>
    /\ packageLevels = <<>>
    /\ packagesVisited = {}
    /\ queue = <<>>
    /\ result = <<>>
    /\ results = <<>>
    /\ i = 0
    /\ j = 0
    /\ k = 0

Init == packageMap \in AllMaps(MaxEdges) /\ Start

\* The same maps with one more import entry.
WideInit == packageMap \in AllMaps(MaxEdges + 1) /\ Start

AcyclicInit == packageMap \in AcyclicMaps(MaxEdges + 1) /\ Start

\* Maps whose import lists may name a path more than once.
RepeatInit == packageMap \in RepeatMaps(MaxEdges) /\ Start

\* Lines 401-428: root detection, the roots get level 0, are marked visited
\* and fill the queue.
FindRoots ==
    /\ pc = "roots"
    /\ \E order \in IterationOrders(DOMAIN packageMap) :
          topLevelPackages' = RootsInOrder(packageMap, order)
    /\ packageLevels' =
          [ p \in { topLevelPackages'[n] : n \in 1..Len(topLevelPackages') }
              |-> 0 ]
    /\ packagesVisited' =
          { topLevelPackages'[n] : n \in 1..Len(topLevelPackages') }
    /\ queue' = topLevelPackages'
    /\ pc' = "bfs"
    /\ UNCHANGED << packageMap, strict, result, results, i, j, k >>
    /\ UNCHANGED << mainVars, libVars >>

\* Lines 437-439: the level of imported after an import at currentLevel.
UpdateLevel(levels, imported, currentLevel) ==
    IF imported \notin DOMAIN levels \/ levels[imported] < currentLevel + 1
    THEN (imported :> (currentLevel + 1)) @@ levels
    ELSE levels

\* Lines 441-444: imported joins the queue the first time it is met only.
EnqueueIfNew(visited, q, imported) ==
    IF imported \notin visited THEN Append(q, imported) ELSE q

\* The loop without the assignment of line 442.
MarkVisitedForgotten(visited, imported) == visited

\* Line 442.
MarkVisited(visited, imported) == visited \cup {imported}

\* Line 432: queue = queue[1:]
Dequeue(q) == Tail(q)

\* Lines 435-445: the loop over the imports of the dequeued package, from
\* entry n on; st is [levels, visited, queue].
RECURSIVE VisitImports(_, _, _, _)
VisitImports(st, imports, n, currentLevel) ==
    IF n > Len(imports)
    THEN st
    ELSE LET imported == imports[n]
         IN  VisitImports(
               [ levels  |-> UpdateLevel(st.levels, imported, currentLevel),
                 visited |-> MarkVisited(st.visited, imported),
                 queue   |-> EnqueueIfNew(st.visited, st.queue, imported) ],
               imports, n + 1, currentLevel)

\* Lines 431-445: one iteration of the BFS loop.
VisitCurrent(pm, st) ==
    LET current == Head(st.queue)
    IN  VisitImports(
          [ levels |-> st.levels, visited |-> st.visited,
            queue |-> Dequeue(st.queue) ],
          ImportsOf(pm, current), 1, st.levels[current])

BFSStep ==
    /\ pc = "bfs"
    /\ queue # <<>>
    /\ packageLevels[Head(queue)] < LevelCap
    /\ LET st == VisitCurrent(packageMap,
                   [ levels |-> packageLevels, visited |-> packagesVisited,
                     queue |-> queue ])
       IN  /\ packageLevels' = st.levels
           /\ packagesVisited' = st.visited
           /\ queue' = st.queue
    /\ UNCHANGED << packageMap, strict, pc, topLevelPackages, result,
                    results, i, j, k >>
    /\ UNCHANGED << mainVars, libVars >>

\* Line 430: the loop ends when the queue is empty.
BFSEnd ==
    /\ pc = "bfs"
    /\ queue = <<>>
    /\ pc' = "adjust"
    /\ UNCHANGED << packageMap, strict, topLevelPackages, packageLevels,
                    packagesVisited, queue, result, results, i, j, k >>
    /\ UNCHANGED << mainVars, libVars >>

\* The levels of the BFS kept, without the second phase of lines 449-455.
AdjustLevelsSkipped(levels) == levels

\* Every level replaced by the depth of the path, the comparison of line
\* 451 left out.
AdjustLevelsToDepth(levels) ==
    [ pkg \in DOMAIN levels |-> getPackageDepth(pkg) ]

\* Lines 449-455: a path deeper than the level raises the level.
AdjustLevels(levels) ==
    [ pkg \in DOMAIN levels |->
        IF getPackageDepth(pkg) > levels[pkg]
        THEN getPackageDepth(pkg)
        ELSE levels[pkg] ]

AdjustByPath ==
    /\ pc = "adjust"
    /\ packageLevels' = AdjustLevels(packageLevels)
    /\ pc' = "organize"
    /\ UNCHANGED << packageMap, strict, topLevelPackages, packagesVisited,
                    queue, result, results, i, j, k >>
    /\ UNCHANGED << mainVars, libVars >>

\* Lines 458-463.
RECURSIVE MaxOver(_, _)
MaxOver(levels, S) ==
    IF S = {}
    THEN 0
    ELSE LET p == CHOOSE x \in S : TRUE
         IN  Max(levels[p], MaxOver(levels, S \ {p}))

maxLevel(levels) == MaxOver(levels, DOMAIN levels)

\* packagesByLevel with a package appended to the slice of its level and
\* to the slices of the deeper levels.
packagesByLevelAndDeeper(levels, order) ==
    [ l \in 1..(maxLevel(levels) + 1) |->
        LET UpToLevel(p) == levels[p] <= l - 1
        IN  SelectSeq(order, UpToLevel) ]

\* packagesByLevel with the slices in the opposite order: the deepest level
\* first.
packagesByLevelDeepestFirst(levels, order) ==
    [ l \in 1..(maxLevel(levels) + 1) |->
        LET AtLevel(p) == levels[p] = maxLevel(levels) + 1 - l
        IN  SelectSeq(order, AtLevel) ]

\* Lines 466-469: maxLevel + 1 slices, each filled in map iteration order.
packagesByLevel(levels, order) ==
    [ l \in 1..(maxLevel(levels) + 1) |->
        LET AtLevel(p) == levels[p] = l - 1
        IN  SelectSeq(order, AtLevel) ]

\* packagesByLevel returned as it is, without lines 472-477.
RemoveEmptyLevelsKept(byLevel) == byLevel

\* Lines 472-477.
RemoveEmptyLevels(byLevel) ==
    LET NonEmpty(pkgs) == Len(pkgs) > 0
    IN  SelectSeq(byLevel, NonEmpty)

\* Lines 430-446: the BFS loop run until the queue is empty.
RECURSIVE RunBFS(_, _)
RunBFS(pm, st) ==
    IF st.queue = <<>> THEN st ELSE RunBFS(pm, VisitCurrent(pm, st))

\* Set of the elements of a sequence.
Range(s) == { s[n] : n \in 1..Len(s) }

\* Lines 400-480: SetUniqueLevels(pm) when the map is iterated in this
\* order by each of its loops over packageMap and packageLevels.
SetUniqueLevelsIn(pm, order) ==
    LET roots  == RootsInOrder(pm, order)
        st     == RunBFS(pm, [ levels  |-> [ p \in Range(roots) |-> 0 ],
                               visited |-> Range(roots),
                               queue   |-> roots ])
        levels == AdjustLevels(st.levels)
        InLevels(p) == p \in DOMAIN levels
        rest   == CHOOSE o \in IterationOrders(DOMAIN levels \ DOMAIN pm) :
                      TRUE
    IN  RemoveEmptyLevels(
          packagesByLevel(levels, SelectSeq(order, InLevels) \o rest))

----------------------------------------------------------------------------
(* CheckLevels *)

\* clog.NewWarning(message)
NewWarning(message) == [Type |-> "WARNING", Message |-> message]

\* clog.NewError(msg) and clog.NewInfo(msg)
NewError(msg) == [Type |-> "ERROR", Message |-> msg]

NewInfo(msg) == [Type |-> "INFO", Message |-> msg]

\* HasViolations testing the length of the list.
HasViolationsNonEmpty(list) == Len(list) > 0

\* Lines 22-30: some result of the list is of type clog.ResultWarning.
HasViolations(list) ==
    \E n \in 1..Len(list) : list[n].Type = "WARNING"

\* The strict rule with the allowed level one deeper, i+1 != a, at line 52.
StrictViolationOneDeeper(levels, pkgImport, i0, a) ==
    contains(levels[a + 1], pkgImport) /\ i0 + 1 # a

\* The strict rule flagging only levels shallower than the allowed one,
\* a < i-1 at line 52.
StrictViolationShallowerOnly(levels, pkgImport, i0, a) ==
    contains(levels[a + 1], pkgImport) /\ a < i0 - 1

\* Line 52: the strict rule, for importer level i and scanned level a.
StrictViolation(levels, pkgImport, i0, a) ==
    contains(levels[a + 1], pkgImport) /\ i0 - 1 # a

\* The rule of the normal mode with i >= a at line 68.
NormalViolationShallower(levels, pkgImport, i0, a) ==
    contains(levels[a + 1], pkgImport) /\ i0 >= a

\* Line 68: the rule of the normal mode.
NormalViolation(levels, pkgImport, i0, a) ==
    contains(levels[a + 1], pkgImport) /\ i0 <= a

\* Lines 56-64 and 73-79: the suggestion, as the format chosen and its
\* arguments.
Suggestion(pm, isStrict, pkg, pkgImport, i0, a) ==
    IF isStrict
    THEN IF i0 <= a
         THEN << "Consider moving to a deeper level than", pkgImport,
                 pm[pkg].Path >>
         ELSE << "Consider reorganizing layers", pkgImport, pm[pkg].Path >>
    ELSE IF isUtilityPackage(pkgImport)
         THEN << "appears to be a utility package", pkgImport >>
         ELSE << "Consider moving to a deeper level than", pkgImport,
                 pm[pkg].Path >>

\* Lines 54, 70 and 84-88: the formatted text, as the values it is made of.
ErrMsg(pm, isStrict, pkg, pkgImport, i0, a) ==
    [ message    |-> IF isStrict
                     THEN "Only one level inward importing is allowed"
                     ELSE "Importing a package of the same level is not allowed",
      fromLevel  |-> i0,
      fromPkg    |-> pm[pkg].Path,
      toLevel    |-> a,
      toPkg      |-> pkgImport,
      suggestion |-> Suggestion(pm, isStrict, pkg, pkgImport, i0, a) ]

\* Lines 45-95: the scan of levels a, a - 1, ..., 0 for one import of pkg
\* (at level i0); it ends at the first violation that is recorded.
RECURSIVE ScanLevels(_, _, _, _, _, _, _, _)
ScanLevels(pm, levels, isStrict, pkg, pkgImport, i0, a, res) ==
    IF a < 0
    THEN res
    ELSE LET violation ==
                 IF isStrict
                 THEN StrictViolation(levels, pkgImport, i0, a)
                 ELSE NormalViolation(levels, pkgImport, i0, a)
             errMsg == ErrMsg(pm, isStrict, pkg, pkgImport, i0, a)
         IN  IF violation /\ ~containsInCheckResults(res, errMsg)
             THEN Append(res, NewWarning(errMsg))
             ELSE ScanLevels(pm, levels, isStrict, pkg, pkgImport, i0,
                             a - 1, res)

\* Lines 37-38: the next level at or above index n that has a package.
RECURSIVE SkipEmptyLevels(_, _)
SkipEmptyLevels(levels, n) ==
    IF n >= 0 /\ Len(levels[n + 1]) = 0
    THEN SkipEmptyLevels(levels, n - 1)
    ELSE n

\* Lines 465-479: the packages grouped by level, the empty levels removed;
\* SetUniqueLevels returns.
Organize ==
    /\ pc = "organize"
    /\ \E order \in IterationOrders(DOMAIN packageLevels) :
          result' = RemoveEmptyLevels(packagesByLevel(packageLevels, order))
    /\ pc' = "call"
    /\ UNCHANGED << packageMap, strict, topLevelPackages, packageLevels,
                    packagesVisited, queue, results, i, j, k >>
    /\ UNCHANGED << mainVars, libVars >>

\* main's call of CheckLevels(packageMap, packageLevels, *strictFlag) and
\* lines 35-38: the scan starts at the first package of the deepest level.
CallCheckLevels ==
    /\ pc = "call"
    /\ strict' \in BOOLEAN
    /\ results' = <<>>
    /\ i' = SkipEmptyLevels(result, Len(result) - 1)
    /\ j' = 1
    /\ k' = 1
    /\ pc' = "check"
    /\ UNCHANGED << packageMap, topLevelPackages, packageLevels,
                    packagesVisited, queue, result >>
    /\ UNCHANGED << mainVars, libVars >>

\* The package under scan.
CurrentPkg == result[i + 1][j]

\* Lines 37-38: the scan moves to the next package of the level, or to the
\* first package of the next shallower level.
NextPackage ==
    /\ k' = 1
    /\ IF j < Len(result[i + 1])
       THEN i' = i /\ j' = j + 1
       ELSE i' = SkipEmptyLevels(result, i - 1) /\ j' = 1

\* Lines 40-42: an entry point is skipped.
CheckSkipEntryPoint ==
    /\ pc = "check"
    /\ i >= 0
    /\ isEntryPointPackage(CurrentPkg)
    /\ NextPackage
    /\ UNCHANGED << packageMap, strict, pc, topLevelPackages, packageLevels,
                    packagesVisited, queue, result, results >>
    /\ UNCHANGED << mainVars, libVars >>

\* Lines 44-96: one import of the package under scan.
CheckImport ==
    /\ pc = "check"
    /\ i >= 0
    /\ ~isEntryPointPackage(CurrentPkg)
    /\ k <= Len(ImportsOf(packageMap, CurrentPkg))
    /\ results' = ScanLevels(packageMap, result, strict, CurrentPkg,
                             ImportsOf(packageMap, CurrentPkg)[k], i, i,
                             results)
    /\ IF k < Len(ImportsOf(packageMap, CurrentPkg))
       THEN k' = k + 1 /\ UNCHANGED << i, j >>
       ELSE NextPackage
    /\ UNCHANGED << packageMap, strict, pc, topLevelPackages, packageLevels,
                    packagesVisited, queue, result >>
    /\ UNCHANGED << mainVars, libVars >>

\* Line 44: a package without imports has nothing to scan.
CheckNoImports ==
    /\ pc = "check"
    /\ i >= 0
    /\ ~isEntryPointPackage(CurrentPkg)
    /\ Len(ImportsOf(packageMap, CurrentPkg)) = 0
    /\ NextPackage
    /\ UNCHANGED << packageMap, strict, pc, topLevelPackages, packageLevels,
                    packagesVisited, queue, result, results >>
    /\ UNCHANGED << mainVars, libVars >>

\* Lines 37 and 124: no level is left, CheckLevels returns results.
CheckReturn ==
    /\ pc = "check"
    /\ i < 0
    /\ pc' = "done"
    /\ UNCHANGED << packageMap, strict, topLevelPackages, packageLevels,
                    packagesVisited, queue, result, results, i, j, k >>
    /\ UNCHANGED << mainVars, libVars >>

Next ==
    \/ FindRoots
    \/ BFSStep
    \/ BFSEnd
    \/ AdjustByPath
    \/ Organize
    \/ CallCheckLevels
    \/ CheckSkipEntryPoint
    \/ CheckImport
    \/ CheckNoImports
    \/ CheckReturn

Spec == Init /\ [][Next]_vars

\* SetUniqueLevels alone, up to its return. The function is sequential code
\* without suspension points: a step that can be taken is taken.
LevelsNext ==
    \/ FindRoots
    \/ BFSStep
    \/ BFSEnd
    \/ AdjustByPath
    \/ Organize

FairLevelsSpec == Init /\ [][LevelsNext]_vars /\ WF_vars(LevelsNext)

\* The same program on package maps with one more import entry.
WideSpec == WideInit /\ [][Next]_vars

\* The same program on the package maps of a module without import cycles.
AcyclicSpec == AcyclicInit /\ [][Next]_vars

\* The same program on maps with repeated import entries.
RepeatSpec == RepeatInit /\ [][Next]_vars

----------------------------------------------------------------------------
(* Functions of the checker package called on their own: input holds the  *)
(* arguments, output the returned values once the call has returned.      *)

\* Largest length of a list given to a function or written by the logger.
MaxLen == 3

\* The message texts.
Texts == { "a", "b" }

\* No package map is under analysis; pc names the function or package used.
Library(name) ==
    /\ packageMap = <<>>
    /\ strict = FALSE
    /\ pc = name
    /\ topLevelPackages = <<>>
    /\ packageLevels = <<>>
    /\ packagesVisited = {}
    /\ queue = <<>>
    /\ result = <<>>
    /\ results = <<>>
    /\ i = 0
    /\ j = 0
    /\ k = 0
    /\ flags = NoFlags
    /\ exitStatus = "running"
    /\ files = <<>>

checkerVars ==
    << packageMap, strict, pc, topLevelPackages, packageLevels,
       packagesVisited, queue, result, results, i, j, k >>

\* The lists of at most n elements of S.
ListsOf(S, n) == UNION { [1..l -> S] : l \in 0..n }

\* The results clog's constructors build.
CheckResults ==
    { NewError(msg) : msg \in Texts } \cup { NewInfo(msg) : msg \in Texts }
        \cup { NewWarning(msg) : msg \in Texts }

HasViolationsInit ==
    /\ Library("HasViolations")
    /\ DefaultLogger = NewDefaultLogger
    /\ input \in { << list >> : list \in ListsOf(CheckResults, MaxLen) }
    /\ output = <<>>

\* checker.HasViolations(results)
CallHasViolations ==
    /\ pc = "HasViolations"
    /\ output = <<>>
    /\ output' = << HasViolations(input[1]) >>
    /\ UNCHANGED << checkerVars, mainVars, DefaultLogger, input >>

HasViolationsSpec == HasViolationsInit /\ [][CallHasViolations]_vars

\* Strings, as the sequences of their characters: "", "g", "ga", "ag",
\* "gaga" and "gigi".
Words ==
    { <<>>, <<"g">>, <<"g", "a">>, <<"a", "g">>, <<"g", "a", "g", "a">>,
      <<"g", "i", "g", "i">> }

ContainsInit ==
    /\ Library("contains")
    /\ DefaultLogger = NewDefaultLogger
    /\ input \in { << s, searchterm >> :
                     s \in ListsOf(Words, MaxLen), searchterm \in Words }
    /\ output = <<>>

\* contains(s, searchterm)
CallContains ==
    /\ pc = "contains"
    /\ output = <<>>
    /\ output' = << contains(input[1], input[2]) >>
    /\ UNCHANGED << checkerVars, mainVars, DefaultLogger, input >>

ContainsSpec == ContainsInit /\ [][CallContains]_vars

----------------------------------------------------------------------------
(* main(), from the return of SetUniqueLevels to the end of the process.  *)
(* What main and the checker print is left to the logger section.         *)

\* Lines 44-96 of CheckLevels for the imports of pkg from entry n on.
RECURSIVE ScanImports(_, _, _, _, _, _, _)
ScanImports(pm, levels, isStrict, pkg, i0, n, res) ==
    IF n > Len(ImportsOf(pm, pkg))
    THEN res
    ELSE ScanImports(pm, levels, isStrict, pkg, i0, n + 1,
                     ScanLevels(pm, levels, isStrict, pkg,
                                ImportsOf(pm, pkg)[n], i0, i0, res))

\* Lines 38-97 for the packages of level i0 from position m on.
RECURSIVE ScanPackages(_, _, _, _, _, _)
ScanPackages(pm, levels, isStrict, i0, m, res) ==
    IF m > Len(levels[i0 + 1])
    THEN res
    ELSE LET pkg == levels[i0 + 1][m]
         IN  ScanPackages(pm, levels, isStrict, i0, m + 1,
                          IF isEntryPointPackage(pkg)
                          THEN res
                          ELSE ScanImports(pm, levels, isStrict, pkg, i0, 1,
                                           res))

\* Lines 37-98 for the levels i0, i0 - 1, ..., 0.
RECURSIVE CheckLevelsFrom(_, _, _, _, _)
CheckLevelsFrom(pm, levels, isStrict, i0, res) ==
    IF i0 < 0
    THEN res
    ELSE CheckLevelsFrom(pm, levels, isStrict, i0 - 1,
                         ScanPackages(pm, levels, isStrict, i0, 1, res))

\* Lines 34-125: the list CheckLevels(pm, levels, isStrict) returns.
CheckLevelsIn(pm, levels, isStrict) ==
    CheckLevelsFrom(pm, levels, isStrict, Len(levels) - 1, <<>>)

\* The settings of -dot, -html and -3d with a visualization asked for.
VisualFlags ==
    [ dot : BOOLEAN, html : BOOLEAN, building3d : BOOLEAN ] \ { NoFlags }

\* main with -dot, -html or -3d: the graph, the report or the building is
\* generated and main returns, or exits with status 1 when the file of
\* -html or -3d could not be written. CheckLevels is not called.
Visualize ==
    /\ pc = "call"
    /\ flags' \in VisualFlags
    /\ \E written \in BOOLEAN :
          exitStatus' = IF flags'.dot \/ written THEN 0 ELSE 1
    /\ pc' = "exited"
    /\ UNCHANGED << packageMap, strict, topLevelPackages, packageLevels,
                    packagesVisited, queue, result, results, i, j, k >>
    /\ UNCHANGED << files, libVars >>

\* main after CheckLevels: os.Exit(1) when HasViolations(results), the
\* return from main otherwise.
ExitMain ==
    /\ pc = "done"
    /\ exitStatus' = IF HasViolations(results) THEN 1 ELSE 0
    /\ pc' = "exited"
    /\ UNCHANGED << packageMap, strict, topLevelPackages, packageLevels,
                    packagesVisited, queue, result, results, i, j, k >>
    /\ UNCHANGED << flags, files, libVars >>

MainNext ==
    \/ Next
    \/ Visualize
    \/ ExitMain

\* The whole of main() on the package maps of a module without import
\* cycles.
MainSpec == AcyclicInit /\ [][MainNext]_vars

----------------------------------------------------------------------------
(* Package clog: the default logger and the calls that write through it *)

\* The Color the constructors NewError, NewInfo and NewWarning give.
ColorOf(cr) ==
    IF cr.Type = "ERROR" THEN "Red"
    ELSE IF cr.Type = "INFO" THEN "Teal" ELSE "Yellow"

\* (l *Logger) PrintMessage(cr): one line is written to l.Writer, the
\* bracketed type and the message, in the colour of cr when l.ColorMode.
PrintMessage(l, cr) ==
    [ l EXCEPT !.Writer =
        Append(@, [ Color   |-> IF l.ColorMode THEN ColorOf(cr) ELSE "",
                    Type    |-> cr.Type,
                    Message |-> cr.Message ]) ]

\* (l *Logger) Error(msg), Warning(msg) and Info(msg)
LoggerError(l, msg) ==
    IF l.Level >= LevelError THEN PrintMessage(l, NewError(msg)) ELSE l

LoggerWarning(l, msg) ==
    IF l.Level >= LevelWarning THEN PrintMessage(l, NewWarning(msg)) ELSE l

LoggerInfo(l, msg) ==
    IF l.Level >= LevelInfo THEN PrintMessage(l, NewInfo(msg)) ELSE l

LoggerInit ==
    /\ Library("clog")
    /\ DefaultLogger = NewDefaultLogger
    /\ input = <<>>
    /\ output = <<>>

\* A call of package clog leaves everything but the logger alone; at most
\* MaxLen lines are written.
LoggerCall ==
    /\ pc = "clog"
    /\ UNCHANGED << checkerVars, mainVars, input, output >>

Writing ==
    /\ LoggerCall
    /\ Len(DefaultLogger.Writer) < MaxLen

\* clog.SetLogLevel(level)
SetLogLevel ==
    /\ LoggerCall
    /\ \E level \in { LevelError, LevelWarning, LevelInfo } :
          DefaultLogger' = [ DefaultLogger EXCEPT !.Level = level ]

\* clog.DisableColor()
DisableColor ==
    /\ LoggerCall
    /\ DefaultLogger' = [ DefaultLogger EXCEPT !.ColorMode = FALSE ]

\* clog.EnableColor()
EnableColor ==
    /\ LoggerCall
    /\ DefaultLogger' = [ DefaultLogger EXCEPT !.ColorMode = TRUE ]

\* clog.Error(msg)
Error ==
    /\ Writing
    /\ \E msg \in Texts : DefaultLogger' = LoggerError(DefaultLogger, msg)

\* clog.Warning(msg)
Warning ==
    /\ Writing
    /\ \E msg \in Texts : DefaultLogger' = LoggerWarning(DefaultLogger, msg)

\* clog.Info(msg)
Info ==
    /\ Writing
    /\ \E msg \in Texts : DefaultLogger' = LoggerInfo(DefaultLogger, msg)

\* clog.PrintColorMessage(cr), as CheckLevels calls it for the header of its
\* report (results of NewInfo) and for each violation (of NewWarning).
PrintColorMessage ==
    /\ Writing
    /\ \E cr \in CheckResults :
          DefaultLogger' = PrintMessage(DefaultLogger, cr)

LoggerNext ==
    \/ SetLogLevel
    \/ DisableColor
    \/ EnableColor
    \/ Error
    \/ Warning
    \/ Info
    \/ PrintColorMessage

LoggerSpec == LoggerInit /\ [][LoggerNext]_vars

----------------------------------------------------------------------------
(* The program on three small modules *)

\* The maps in which every package p of DOMAIN imports lists the paths of
\* imports[p], each once, in any order.
MapsImporting(imports) ==
    LET lists == UNION { IterationOrders(imports[p]) : p \in DOMAIN imports }
    IN  { [ p \in DOMAIN imports |-> NewPackageInfo(p, l[p]) ] :
            l \in { f \in [ DOMAIN imports -> lists ] :
                      \A p \in DOMAIN imports : Range(f[p]) = imports[p] } }

\* mod/main imports mod/app, which imports mod/util/common.
ScenarioA ==
    MapsImporting(
        (<<"mod", "main">> :> { <<"mod", "app">> })
     @@ (<<"mod", "app">> :> { <<"mod", "util", "common">> })
     @@ (<<"mod", "util", "common">> :> {}))

\* mod/main imports mod/service and mod/other, mod/other imports
\* mod/service, which imports mod/util.
ScenarioB ==
    MapsImporting(
        (<<"mod", "main">> :> { <<"mod", "service">>, <<"mod", "other">> })
     @@ (<<"mod", "service">> :> { <<"mod", "util">> })
     @@ (<<"mod", "other">> :> { <<"mod", "service">> })
     @@ (<<"mod", "util">> :> {}))

\* The paths of a main package and of a util package, at several depths.
MainPaths == { <<"main">>, <<"mod", "main">> }

UtilPaths ==
    { <<"mod", "util">>, <<"mod", "x", "util">>, <<"shared", "x", "util">>,
      <<"mod", "shared", "util">> }

\* A main package imports a util package, which imports nothing.
ScenarioC ==
    UNION { MapsImporting((m :> { u }) @@ (u :> {})) :
            m \in MainPaths, u \in UtilPaths }

ScenarioInit == packageMap \in ScenarioA \cup ScenarioB \cup ScenarioC /\ Start

ScenarioSpec == ScenarioInit /\ [][Next]_vars

----------------------------------------------------------------------------
(* The violations the visualizations mark: input holds the package map    *)
(* and the partition, output the marked import edges.                     *)

\* The import edges << importer, import >> of a package map.
Edges(pm) ==
    UNION { { << pkg, pm[pkg].Imports[n] >> : n \in 1..Len(pm[pkg].Imports) } :
            pkg \in DOMAIN pm }

\* findPackageLevel: the index of the first level with pkg, -1 without one.
findPackageLevel(pkg, levels) ==
    IF \E n \in 1..Len(levels) : contains(levels[n], pkg)
    THEN (CHOOSE n \in 1..Len(levels) :
            /\ contains(levels[n], pkg)
            /\ \A m \in 1..(n - 1) : ~contains(levels[m], pkg)) - 1
    ELSE -1

\* GenerateDotGraph: the edges drawn in red.
GenerateDotGraph(pm, levels) ==
    { e \in Edges(pm) :
        LET pkgLevel == findPackageLevel(e[1], levels)
            impLevel == findPackageLevel(e[2], levels)
        IN  pkgLevel <= impLevel /\ ~isEntryPointPackage(e[1]) }

\* prepareVisualizationData: the dependencies with IsViolation set, among
\* the edges whose two ends have an ID, that is, a place in the partition.
prepareVisualizationData(pm, levels) ==
    LET packageIDMap == UNION { Range(levels[n]) : n \in 1..Len(levels) }
    IN  { e \in Edges(pm) :
            /\ e[1] \in packageIDMap
            /\ e[2] \in packageIDMap
            /\ LET fromLevel == findPackageLevel(e[1], levels)
                   toLevel   == findPackageLevel(e[2], levels)
                   reversedFromLevel == Len(levels) - fromLevel - 1
                   reversedToLevel   == Len(levels) - toLevel - 1
               IN  /\ ~isEntryPointPackage(e[1])
                   /\ reversedFromLevel >= reversedToLevel }

\* The partitions SetUniqueLevels returns for pm.
PartitionsOf(pm) ==
    { SetUniqueLevelsIn(pm, order) : order \in IterationOrders(DOMAIN pm) }

\* main's calls: the map of a module without import cycles and the partition
\* SetUniqueLevels returned for it.
VisualizeInit ==
    /\ Library("visualize")
    /\ DefaultLogger = NewDefaultLogger
    /\ \E pm \in AcyclicMaps(MaxEdges) :
          input \in { << pm, levels >> : levels \in PartitionsOf(pm) }
    /\ output = <<>>

\* checker.GenerateDotGraph(packageMap, packageLevels)
CallGenerateDotGraph ==
    /\ pc = "visualize"
    /\ output = <<>>
    /\ output' = << [ by         |-> "GenerateDotGraph",
                      violations |-> GenerateDotGraph(input[1], input[2]) ] >>
    /\ UNCHANGED << checkerVars, mainVars, DefaultLogger, input >>

\* Generate3DVisualization's call of prepareVisualizationData.
CallPrepareVisualizationData ==
    /\ pc = "visualize"
    /\ output = <<>>
    /\ output' =
          << [ by         |-> "prepareVisualizationData",
               violations |-> prepareVisualizationData(input[1], input[2]) ] >>
    /\ UNCHANGED << checkerVars, mainVars, DefaultLogger, input >>

VisualizeNext ==
    \/ CallGenerateDotGraph
    \/ CallPrepareVisualizationData

VisualizeSpec == VisualizeInit /\ [][VisualizeNext]_vars

----------------------------------------------------------------------------
(* CheckLevels called on its own: the function is exported and takes any  *)
(* [][]string, also one with an empty level or with a path in several     *)
(* levels, and any map.                                                   *)

\* The lists of at most MaxLen levels, each a list of paths of K without a
\* repeated path; a path may be in several levels.
LevelLists(K) ==
    ListsOf(UNION { InjectiveSeqs(K, n) : n \in 0..Cardinality(K) }, MaxLen)

\* CheckLevels is about to be called with a map of at most two packages,
\* whose import lists may repeat a path, and with any list of levels.
CheckLevelsInit ==
    /\ Idle
    /\ strict = FALSE
    /\ pc = "call"
    /\ topLevelPackages = <<>>
    /\ packageLevels = <<>>
    /\ packagesVisited = {}
    /\ queue = <<>>
    /\ results = <<>>
    /\ i = 0
    /\ j = 0
    /\ k = 0
    /\ \E K \in { S \in SUBSET Paths : Cardinality(S) <= 2 } :
          /\ packageMap \in RepeatMapsOver(K, K, MaxEdges - 1)
          /\ result \in LevelLists(K)

CheckLevelsNext ==
    \/ CallCheckLevels
    \/ CheckSkipEntryPoint
    \/ CheckImport
    \/ CheckNoImports
    \/ CheckReturn

CheckLevelsSpec == CheckLevelsInit /\ [][CheckLevelsNext]_vars

----------------------------------------------------------------------------
(* isUtilityPackage and getPackageDepth called on their own: input holds  *)
(* the path, output the name of the function and the value returned.      *)

\* The segments of the paths: a module name, two utility markers, a package
\* name.
Segments == { "m", "pkg", "lib", "a" }

\* The paths of one to MaxLen segments.
SegmentPaths == ListsOf(Segments, MaxLen) \ { <<>> }

PathInit ==
    /\ Library("path")
    /\ DefaultLogger = NewDefaultLogger
    /\ input \in { << packagePath >> : packagePath \in SegmentPaths }
    /\ output = <<>>

\* isUtilityPackage(packagePath)
CallIsUtilityPackage ==
    /\ pc = "path"
    /\ output = <<>>
    /\ output' = << [ by    |-> "isUtilityPackage",
                      value |-> isUtilityPackage(input[1]) ] >>
    /\ UNCHANGED << checkerVars, mainVars, DefaultLogger, input >>

\* getPackageDepth(packagePath)
CallGetPackageDepth ==
    /\ pc = "path"
    /\ output = <<>>
    /\ output' = << [ by    |-> "getPackageDepth",
                      value |-> getPackageDepth(input[1]) ] >>
    /\ UNCHANGED << checkerVars, mainVars, DefaultLogger, input >>

PathNext ==
    \/ CallIsUtilityPackage
    \/ CallGetPackageDepth

PathSpec == PathInit /\ [][PathNext]_vars

----------------------------------------------------------------------------
(* Map: the walk over the files of workdir, and main() from the call of   *)
(* Map to the end of the process.                                         *)

\* The module path of go.mod, the first segment of every path of the module.
ModPath == "m"

\* strings.Index(packageImport, ModPath) > 0: an import of the module
\* itself, not of the standard library or of another module.
InModule(packageImport) == \E n \in 1..Len(packageImport) :
                              packageImport[n] = ModPath

AppendStringIfMissing(slice, item) ==
    IF \E n \in 1..Len(slice) : slice[n] = item
    THEN slice
    ELSE Append(slice, item)

\* Lines 537-541 and 553-558: the imports of the file from entry n on, added
\* to the list unless they are outside the module or in the list already.
RECURSIVE AddImports(_, _, _)
AddImports(imports, fileImports, n) ==
    IF n > Len(fileImports)
    THEN imports
    ELSE AddImports(IF InModule(fileImports[n])
                    THEN AppendStringIfMissing(imports, fileImports[n])
                    ELSE imports,
                    fileImports, n + 1)

\* Lines 532-562: the package of the file is updated, or created.
AddFile(pm, file) ==
    IF file.dir \in DOMAIN pm
    THEN [ pm EXCEPT ![file.dir].Imports =
                        AddImports(pm[file.dir].Imports, file.imports, 1) ]
    ELSE (file.dir :> NewPackageInfo(file.dir,
                                     AddImports(<<>>, file.imports, 1)))
            @@ pm

\* The files the walk can meet: a Go file of a directory of the module with
\* at most one import, which is read and parsed ("ok"), skipped as a
\* directory, a non-Go file, a file under .git or a test file ("skip"), or
\* met with an error of the walk, of filepath.Rel or of the parser ("error").
WorkdirFiles ==
    [ dir     : { <<"m", "main">>, <<"m", "a">>, <<"m", "b">> },
      imports : ListsOf({ <<"m", "a">>, <<"m", "b">>, <<"fmt">> }, 1),
      outcome : { "ok", "skip", "error" } ]

\* main calls Map on a workdir of at most MaxLen - 1 files.
RunInit ==
    /\ flags = NoFlags
    /\ exitStatus = "running"
    /\ DefaultLogger = NewDefaultLogger
    /\ input = <<>>
    /\ output = <<>>
    /\ strict = FALSE
    /\ pc = "walk"
    /\ packageMap = <<>>
    /\ topLevelPackages = <<>>
    /\ packageLevels = <<>>
    /\ packagesVisited = {}
    /\ queue = <<>>
    /\ result = <<>>
    /\ results = <<>>
    /\ i = 0
    /\ j = 0
    /\ k = 0
    /\ files \in ListsOf(WorkdirFiles, MaxLen - 1)

\* Lines 490-569: the walk function on the next file. An error adds one
\* result and returns nil, so the walk goes on.
MapFile ==
    /\ pc = "walk"
    /\ files # <<>>
    /\ LET file == Head(files)
       IN  /\ results' = IF file.outcome = "error"
                         THEN Append(results, NewError("err.Error()"))
                         ELSE results
           /\ packageMap' = IF file.outcome = "ok"
                            THEN AddFile(packageMap, file)
                            ELSE packageMap
    /\ files' = Tail(files)
    /\ UNCHANGED << strict, pc, topLevelPackages, packageLevels,
                    packagesVisited, queue, result, i, j, k >>
    /\ UNCHANGED << flags, exitStatus, libVars >>

\* Lines 568-572: the walk is over, Map returns the map and the results.
MapReturn ==
    /\ pc = "walk"
    /\ files = <<>>
    /\ pc' = "mapped"
    /\ UNCHANGED << packageMap, strict, topLevelPackages, packageLevels,
                    packagesVisited, queue, result, results, i, j, k >>
    /\ UNCHANGED << mainVars, libVars >>

\* main going on to SetUniqueLevels whatever Map's results are.
MapFailedIgnored(list) == FALSE

\* main.go lines 147-151: some result of Map is of type clog.ResultErr.
MapFailed(list) == \E n \in 1..Len(list) : list[n].Type = "ERROR"

\* main.go lines 146-154: os.Exit(1) when Map met an error, the call of
\* SetUniqueLevels otherwise.
CheckMapResults ==
    /\ pc = "mapped"
    /\ IF MapFailed(results)
       THEN pc' = "exited" /\ exitStatus' = 1
       ELSE pc' = "roots" /\ UNCHANGED exitStatus
    /\ UNCHANGED << packageMap, strict, topLevelPackages, packageLevels,
                    packagesVisited, queue, result, results, i, j, k >>
    /\ UNCHANGED << flags, files, libVars >>

RunNext ==
    \/ MapFile
    \/ MapReturn
    \/ CheckMapResults
    \/ Next
    \/ ExitMain

\* The whole run of main() without visualization flags.
RunSpec == RunInit /\ [][RunNext]_vars

TypeOK ==
    /\ pc \in { "roots", "bfs", "adjust", "organize", "call", "check",
               "done", "exited" }
    /\ strict \in BOOLEAN
    /\ DOMAIN packageLevels \subseteq Paths
    /\ \A p \in DOMAIN packageLevels : packageLevels[p] \in 0..LevelCap

----------------------------------------------------------------------------
(* Properties *)

\* SetUniqueLevels has returned: result is the partition it returned.
Returned == pc \in { "call", "check", "done" }

\* The 0-based indices of the levels of partition p that hold path x.
LevelsHolding(p, x) == { n \in 0..(Len(p) - 1) : contains(p[n + 1], x) }

\* Paths x and y lie in a common level of partition p.
SameLevel(p, x, y) == LevelsHolding(p, x) \cap LevelsHolding(p, y) # {}

\* A partition as the sequence of the sets of paths of its levels.
LevelSets(p) == [ n \in 1..Len(p) |-> Range(p[n]) ]

\* The messages recorded so far.
Messages == { results[n].Message : n \in 1..Len(results) }

\* A violation is recorded for the import of path to by path from.
Reported(from, to) ==
    \E m \in Messages : m.fromPkg = from /\ m.toPkg = to

\* An entry point as the specification describes it: the path ends in "/."
\* or in "/main", or contains "/cmd/".
EntryPointPath(x) ==
    \/ HasSuffixSegment(x, ".")
    \/ HasSuffixSegment(x, "main")
    \/ ContainsInner(x, "cmd")

\* C1: every key of the package map, cyclic or not, appears in exactly one
\* level of the partition SetUniqueLevels returns.
C1_EveryKeyInExactlyOneLevel ==
    Returned =>
        \A x \in DOMAIN packageMap :
            Cardinality(LevelsHolding(result, x)) = 1

\* C2: SetUniqueLevels returns the same partition (the same set of packages
\* at each level index) whatever the order in which the map is iterated.
C2_Deterministic ==
    Returned =>
        \A order \in IterationOrders(DOMAIN packageMap) :
            LevelSets(SetUniqueLevelsIn(packageMap, order)) = LevelSets(result)

\* The provisional levels of the packages that import q and have a level.
ImporterLevels(q) ==
    { packageLevels[x] :
        x \in { y \in DOMAIN packageMap \cap DOMAIN packageLevels :
                  contains(packageMap[y].Imports, q) } }

\* C3: when the BFS ends, every import edge p -> q whose importer has a
\* provisional level gives q a provisional level of at least that of p plus
\* one, and q has the deepest such level: one more than the largest
\* provisional level of its importers.
C3_DeepestImporterPlusOne ==
    pc = "adjust" =>
        \A x \in DOMAIN packageMap \cap DOMAIN packageLevels :
            \A n \in 1..Len(packageMap[x].Imports) :
                LET q == packageMap[x].Imports[n]
                IN  /\ q \in DOMAIN packageLevels
                    /\ packageLevels[q] >= packageLevels[x] + 1
                    /\ \A l \in ImporterLevels(q) : packageLevels[q] >= l + 1
                    /\ \E l \in ImporterLevels(q) : packageLevels[q] = l + 1

\* An entry point imports, in the normal mode, a package of its own level,
\* and CheckLevels has returned violations of other packages.
C4_Witness ==
    /\ pc = "done"
    /\ ~strict
    /\ results # <<>>
    /\ \E x \in DOMAIN packageMap :
          /\ EntryPointPath(x)
          /\ \E n \in 1..Len(packageMap[x].Imports) :
                SameLevel(result, x, packageMap[x].Imports[n])

\* C4: no violation recorded by CheckLevels has an entry point (a path
\* ending in "/." or "/main", or containing "/cmd/") as its importer.
C4_NoEntryPointImporter ==
    \A m \in Messages : ~EntryPointPath(m.fromPkg)

C6_StrictOnlyNextLevel ==
    (pc = "done" /\ strict) =>
        \A x \in DOMAIN packageMap :
            \A n \in 1..Len(packageMap[x].Imports) :
                LET target == packageMap[x].Imports[n]
                IN  \A lx \in LevelsHolding(result, x) :
                        \A lq \in LevelsHolding(result, target) :
                            ~EntryPointPath(x) =>
                                (Reported(x, target) <=> lq # lx + 1)

C8_DanglingImportIgnored ==
    Returned =>
        \A x \in Paths \ DOMAIN packageMap :
            /\ LevelsHolding(result, x) = {}
            /\ \A m \in Messages : m.toPkg # x /\ m.fromPkg # x

\* SetUniqueLevels returned on a map in which two packages import each
\* other and the BFS reached both.
C9_Witness ==
    /\ pc = "call"
    /\ \E x, y \in DOMAIN packageMap \cap DOMAIN packageLevels :
          /\ x # y
          /\ contains(packageMap[x].Imports, y)
          /\ contains(packageMap[y].Imports, x)

\* C9: SetUniqueLevels terminates on every package map, import cycles and
\* self-imports included: the BFS loop is left and the function returns.
C9_Terminates == <>(pc = "call")

\* CheckLevels returned, in strict mode, on the partition of an empty map.
C10_Witness ==
    /\ pc = "done"
    /\ strict
    /\ DOMAIN packageMap = {}

\* C10: for a package map without packages SetUniqueLevels returns a
\* partition without levels and CheckLevels returns no violation, in both
\* modes.
C10_EmptyMap ==
    DOMAIN packageMap = {} =>
        /\ Returned => result = <<>>
        /\ pc = "done" => results = <<>>

\* C11: at every point of a CheckLevels run, and in the list it returns, no
\* two recorded violations have the same message text.
C11_NoDuplicateMessage ==
    \A m, n \in 1..Len(results) :
        m # n => results[m].Message # results[n].Message

\* CheckLevels returned a violation for an import that the importer lists
\* twice.
C11_Witness ==
    /\ pc = "done"
    /\ \E x \in DOMAIN packageMap :
          \E m, n \in 1..Len(packageMap[x].Imports) :
              /\ m # n
              /\ packageMap[x].Imports[m] = packageMap[x].Imports[n]
              /\ Reported(x, packageMap[x].Imports[m])

\* C12: HasViolations(list) is true if and only if the list is non-empty,
\* for every list of check results.
C12_TrueIffNonEmpty ==
    (pc = "HasViolations" /\ output # <<>>) =>
        (output[1] <=> Len(input[1]) > 0)

\* HasViolations returned false for a list that holds results, none of them
\* a warning.
C12_Witness ==
    /\ pc = "HasViolations"
    /\ output = << FALSE >>
    /\ Len(input[1]) > 1

\* C12 as amended: HasViolations(list) is true if and only if the list
\* holds a result of type WARNING; for a list of warnings only, as
\* CheckLevels returns, that is if and only if the list is non-empty.
C12_TrueIffSomeWarning ==
    (pc = "HasViolations" /\ output # <<>>) =>
        LET list == input[1]
        IN  /\ output[1] <=> \E n \in 1..Len(list) : list[n].Type = "WARNING"
            /\ (\A n \in 1..Len(list) : list[n].Type = "WARNING")
                  => (output[1] <=> Len(list) > 0)

\* C13: whenever the analysed module contains an import that CheckLevels
\* reports as a violation under the selected mode, the process ends with
\* exit status 1, whatever the flags -dot, -html and -3d are.
C13_ViolationExitsWithStatusOne ==
    pc = "exited" =>
        (CheckLevelsIn(packageMap, result, strict) # <<>> => exitStatus = 1)

\* C14: once the level is LevelError (-silent) every line a later call of
\* Error, Warning, Info or PrintColorMessage writes to the logger's writer is
\* of type ERROR, and once it is LevelWarning (-quiet) no line of type INFO
\* is written.
C14_LevelFiltersEveryWrite ==
    [][ Len(DefaultLogger'.Writer) > Len(DefaultLogger.Writer) =>
          LET line == DefaultLogger'.Writer[Len(DefaultLogger'.Writer)]
          IN  /\ DefaultLogger.Level = LevelError => line.Type = "ERROR"
              /\ DefaultLogger.Level = LevelWarning => line.Type # "INFO"
      ]_vars

\* C15: on the map of scenario B, SetUniqueLevels places mod/service and
\* mod/other in the same level, level 1, and CheckLevels in the normal mode
\* returns exactly one violation, "Importing a package of the same level is
\* not allowed", for the import of mod/service by mod/other, with importer
\* level 1 and target level 1.
C15_ScenarioB ==
    packageMap \in ScenarioB =>
        /\ Returned =>
              /\ SameLevel(result, <<"mod", "service">>, <<"mod", "other">>)
              /\ packageLevels[<<"mod", "service">>] = 1
              /\ packageLevels[<<"mod", "other">>] = 1
        /\ (pc = "done" /\ ~strict) =>
              /\ Len(results) = 1
              /\ LET m == results[1].Message
                 IN  /\ m.message =
                          "Importing a package of the same level is not allowed"
                     /\ m.fromPkg = <<"mod", "other">>
                     /\ m.toPkg = <<"mod", "service">>
                     /\ m.fromLevel = 1
                     /\ m.toLevel = 1

PlacesOf(p, x) ==
    { pl \in UNION { { << n, m >> : m \in 1..Len(p[n]) } : n \in 1..Len(p) } :
        p[pl[1]][pl[2]] = x }

\* SetUniqueLevels returned a partition of several levels, one of them with
\* several packages.
C18_Witness ==
    /\ Returned
    /\ Len(result) >= 2
    /\ \E n \in 1..Len(result) : Len(result[n]) >= 2

\* C18: for every package map, no path appears in more than one level of
\* the partition SetUniqueLevels returns, and none twice inside a level.
C18_NoPathTwice ==
    Returned =>
        \A n \in 1..Len(result) :
            \A m \in 1..Len(result[n]) :
                PlacesOf(result, result[n][m]) = { << n, m >> }

\* contains returned false for a list with an element of which the search
\* term is a proper prefix.
C19_Witness ==
    /\ pc = "contains"
    /\ output = << FALSE >>
    /\ \E n \in 1..Len(input[1]) :
          /\ Len(input[2]) > 0
          /\ Len(input[1][n]) > Len(input[2])
          /\ SubSeq(input[1][n], 1, Len(input[2])) = input[2]

\* C19: contains(s, x) is true if and only if some element of s is exactly
\* equal to x: it is false for the empty list and for an x that is only a
\* prefix or a substring of elements of s.
C19_ContainsExactMatch ==
    (pc = "contains" /\ output # <<>>) =>
        LET s == input[1]
            x == input[2]
        IN  /\ output[1] <=> x \in Range(s)
            /\ s = <<>> => ~output[1]
            /\ (\A n \in 1..Len(s) : s[n] # x) => ~output[1]

\* C20: the roots SetUniqueLevels finds are exactly the packages that no
\* other package's Imports list contains; a package whose only importer is
\* itself is a root.
C20_RootIffNoOtherImporter ==
    pc \in { "bfs", "adjust", "organize", "call", "check", "done" } =>
        \A x \in DOMAIN packageMap :
            x \in Range(topLevelPackages)
                <=> ~\E y \in DOMAIN packageMap \ { x } :
                        contains(packageMap[y].Imports, x)

\* The paths whose provisional level the step gave or raised.
LevelGivenOrRaised ==
    { x \in DOMAIN packageLevels' :
        x \notin DOMAIN packageLevels \/ packageLevels[x] < packageLevels'[x] }

\* C21: whenever the processing of a dequeued package gives an import target
\* its first provisional level or raises its provisional level, the target
\* is enqueued, again if it had been visited already.
C21_RaisedTargetEnqueued ==
    [][ (pc = "bfs" /\ pc' = "bfs") =>
            \A x \in LevelGivenOrRaised : x \in Range(queue') ]_vars

\* The structural depth of a path: its number of "/", plus one if the path
\* is a utility path.
StructuralDepth(pkg) ==
    CountSlashes(pkg) + (IF isUtilityPackage(pkg) THEN 1 ELSE 0)

\* The override has run: it raised a root above its provisional level 0 and
\* left a package at a provisional level above its structural depth.
C22_Witness ==
    /\ pc = "organize"
    /\ \E pkg \in Range(topLevelPackages) : packageLevels[pkg] > 0
    /\ \E pkg \in DOMAIN packageLevels :
          packageLevels[pkg] > StructuralDepth(pkg)

\* C22: the structural-depth override only raises levels: for every package
\* with a provisional level the final level is the maximum of the
\* provisional level and the structural depth, never lower than the
\* provisional level, and no other package gets a level.
C22_OverrideOnlyRaises ==
    [][ pc = "adjust" =>
            /\ DOMAIN packageLevels' = DOMAIN packageLevels
            /\ \A pkg \in DOMAIN packageLevels :
                  /\ packageLevels'[pkg] =
                        Max(packageLevels[pkg], StructuralDepth(pkg))
                  /\ packageLevels'[pkg] >= packageLevels[pkg] ]_vars

\* SetUniqueLevels returned a partition of several levels, one of them shared
\* by two packages, after the removal of an empty level: the deepest integer
\* level is larger than the last index.
C23_Witness ==
    /\ Returned
    /\ Len(result) >= 2
    /\ \E x, y \in DOMAIN packageLevels :
          x # y /\ packageLevels[x] = packageLevels[y]
    /\ \E x \in DOMAIN packageLevels : packageLevels[x] > Len(result) - 1

\* C23: the returned sequence has no empty level; two packages are in the
\* same returned level if and only if their final integer levels are equal;
\* a package with a smaller final level is at a smaller index than a package
\* with a larger final level.
C23_PartitionByFinalLevel ==
    Returned =>
        /\ \A n \in 1..Len(result) : result[n] # <<>>
        /\ \A x \in DOMAIN packageLevels : LevelsHolding(result, x) # {}
        /\ \A x, y \in DOMAIN packageLevels :
              /\ SameLevel(result, x, y)
                    <=> packageLevels[x] = packageLevels[y]
              /\ packageLevels[x] < packageLevels[y] =>
                    \A a \in LevelsHolding(result, x) :
                        \A b \in LevelsHolding(result, y) : a < b

\* The import edges for which CheckLevels(pm, levels, false) returns a
\* violation.
LenientViolations(pm, levels) ==
    LET res == CheckLevelsIn(pm, levels, FALSE)
    IN  { << res[n].Message.fromPkg, res[n].Message.toPkg >> :
            n \in 1..Len(res) }

\* C24: an import edge is marked as a violation by GenerateDotGraph (red
\* edge) and by prepareVisualizationData (IsViolation) if and only if
\* lenient CheckLevels returns a violation for that edge.
C24_VisualizationsMatchChecker ==
    (pc = "visualize" /\ output # <<>>) =>
        output[1].violations = LenientViolations(input[1], input[2])

\* The scan of one import entry is the next step of CheckLevels.
ScanIsNext ==
    /\ pc = "check"
    /\ i >= 0
    /\ ~isEntryPointPackage(CurrentPkg)
    /\ k <= Len(ImportsOf(packageMap, CurrentPkg))

\* The rule of the mode flags the import under scan at level a.
FlaggedAt(a) ==
    LET pkgImport == ImportsOf(packageMap, CurrentPkg)[k]
    IN  IF strict
        THEN StrictViolation(result, pkgImport, i, a)
        ELSE NormalViolation(result, pkgImport, i, a)

\* The first level of the scan i, i - 1, ..., 0 that is flagged.
FirstFlagged ==
    CHOOSE a \in 0..i : FlaggedAt(a) /\ \A b \in (a + 1)..i : ~FlaggedAt(b)

\* C25: the scan of an (importer, import target) pair stops at the first
\* level where a violation is flagged: the violation is recorded there, or
\* it is skipped as a duplicate of a recorded message and nothing is
\* recorded by the scan; this for every list of levels and every Imports
\* list, also one with repeated entries.
C25_ScanStopsAtFirstFlaggedLevel ==
    [][ ScanIsNext =>
            IF \E a \in 0..i : FlaggedAt(a)
            THEN LET errMsg ==
                         ErrMsg(packageMap, strict, CurrentPkg,
                                ImportsOf(packageMap, CurrentPkg)[k], i,
                                FirstFlagged)
                 IN  results' =
                        IF \E n \in 1..Len(results) :
                               results[n].Message = errMsg
                        THEN results
                        ELSE Append(results, NewWarning(errMsg))
            ELSE results' = results ]_vars

\* Some segment of the path, the first and the last included, is one of the
\* markers utilities, common, pkg, shared, lib.
HasMarkerSegment(path) ==
    \E n \in 1..Len(path) :
        path[n] \in { "utilities", "common", "pkg", "shared", "lib" }

\* C26: isUtilityPackage(path) is true if and only if some "/"-separated
\* segment of the path, the last segment included, equals one of the
\* utility markers; getPackageDepth adds its one-level bonus in exactly
\* those cases.
C26_UtilityIffMarkerSegment ==
    (pc = "path" /\ output # <<>>) =>
        IF output[1].by = "isUtilityPackage"
        THEN output[1].value <=> HasMarkerSegment(input[1])
        ELSE output[1].value =
                CountSlashes(input[1])
                    + (IF HasMarkerSegment(input[1]) THEN 1 ELSE 0)

\* A file that fails to be read or parsed adds one diagnostic and nothing
\* to the map, and the walk continues with the remaining files.
FileErrorSkipped ==
    (pc = "walk" /\ files # <<>> /\ Head(files).outcome = "error") =>
        /\ Len(results') = Len(results) + 1
        /\ SubSeq(results', 1, Len(results)) = results
        /\ results'[Len(results')].Type = "ERROR"
        /\ packageMap' = packageMap
        /\ files' = Tail(files)
        /\ pc' = "walk"

\* Map met an error in one file and added another file to the map, and main
\* exited with status 1 without a level assignment.
C27_Witness ==
    /\ pc = "exited"
    /\ exitStatus = 1
    /\ \E n \in 1..Len(results) : results[n].Type = "ERROR"
    /\ DOMAIN packageMap # {}
    /\ result = <<>>

\* C27: a per-file read or parse error is non-fatal: the file adds one
\* diagnostic and nothing to the map, the walk continues with the remaining
\* files, and the run goes on to level assignment and violation checking on
\* whatever map was built.
C27_FileErrorNonFatal ==
    [][ /\ FileErrorSkipped
        /\ pc = "mapped" => (pc' = "roots" /\ packageMap' = packageMap) ]_vars

\* C27, amended: the error is non-fatal for the walk only. After Map
\* returned, main exits with status 1 when a diagnostic was added, without
\* level assignment, and goes on to the level assignment otherwise.
C27_FileErrorEndsRunAfterWalk ==
    [][ /\ FileErrorSkipped
        /\ pc = "mapped" =>
              /\ UNCHANGED << packageMap, packageLevels, result, results >>
              /\ IF \E n \in 1..Len(results) : results[n].Type = "ERROR"
                 THEN pc' = "exited" /\ exitStatus' = 1
                 ELSE pc' = "roots" /\ exitStatus' = "running" ]_vars

\* The paths that have a place in partition p.
PathsIn(p) == UNION { Range(p[n]) : n \in 1..Len(p) }

\* Every import of the map is a key of the map.
ImportsAreKeys(pm) ==
    \A x \in DOMAIN pm : Range(pm[x].Imports) \subseteq DOMAIN pm

\* SetUniqueLevels returned the partition of a map with two roots and a
\* package that no root imports directly.
C28_Witness ==
    /\ Returned
    /\ Len(topLevelPackages) >= 2
    /\ \E x \in DOMAIN packageMap :
          /\ x \notin Range(topLevelPackages)
          /\ \A r \in Range(topLevelPackages) :
                x \notin Range(packageMap[r].Imports)

\* C28: for every acyclic package map without self-imports in which every
\* import target is a key of the map, the set of paths in the partition
\* SetUniqueLevels returns is exactly the set of keys of the map.
C28_PartitionCoversExactlyTheKeys ==
    (/\ Returned
     /\ ImportsAreKeys(packageMap)
     /\ Acyclic(packageMap, DOMAIN packageMap)) =>
        PathsIn(result) = DOMAIN packageMap

\* Each path with a place in partition p is in one level, once.
EachPackageInOneLevel(p) ==
    \A n1, n2 \in 1..Len(p) :
        \A m1 \in 1..Len(p[n1]) :
            \A m2 \in 1..Len(p[n2]) :
                p[n1][m1] = p[n2][m2] => (n1 = n2 /\ m1 = m2)

\* Strict CheckLevels returned: among its violations are an edge for which
\* lenient CheckLevels returns one too and an edge for which it returns none.
C29_Witness ==
    /\ pc = "done"
    /\ strict
    /\ EachPackageInOneLevel(result)
    /\ LenientViolations(packageMap, result) # {}
    /\ \E n \in 1..Len(results) :
          << results[n].Message.fromPkg, results[n].Message.toPkg >>
              \notin LenientViolations(packageMap, result)

\* C29: strict mode is at least as severe as lenient mode: for every package
\* map and every partition with each package in one level, each import edge
\* for which lenient CheckLevels returns a violation also gets a violation
\* from strict CheckLevels.
C29_StrictAtLeastAsSevere ==
    (pc = "done" /\ strict /\ EachPackageInOneLevel(result)) =>
        \A e \in LenientViolations(packageMap, result) : Reported(e[1], e[2])

\* The lists with the entries of s in another order.
PermutationsOf(s) ==
    { [ n \in 1..Len(s) |-> s[f[n]] ] :
        f \in InjectiveSeqs(1..Len(s), Len(s)) }

\* The maps that differ from pm in the order of the entries of Imports
\* lists only, for the keys in K.
RECURSIVE ReorderedImports(_, _)
ReorderedImports(pm, K) ==
    IF K = {}
    THEN { pm }
    ELSE LET p == CHOOSE x \in K : TRUE
         IN  { [ m EXCEPT ![p].Imports = l ] :
                 l \in PermutationsOf(pm[p].Imports),
                 m \in ReorderedImports(pm, K \ {p}) }

\* The partitions that differ from p in the order of the packages inside
\* the levels n, n + 1, ... only.
RECURSIVE ReorderedLevels(_, _)
ReorderedLevels(p, n) ==
    IF n > Len(p)
    THEN { p }
    ELSE { [ q EXCEPT ![n] = l ] :
             l \in PermutationsOf(p[n]), q \in ReorderedLevels(p, n + 1) }

\* The messages of a list of results.
MessagesOf(res) == { res[n].Message : n \in 1..Len(res) }

\* CheckLevels returned two violations or more, for a partition with a level
\* of several packages and a map with an Imports list of several entries.
C30_Witness ==
    /\ pc = "done"
    /\ EachPackageInOneLevel(result)
    /\ Len(results) >= 2
    /\ \E n \in 1..Len(result) : Len(result[n]) >= 2
    /\ \E x \in DOMAIN packageMap : Len(packageMap[x].Imports) >= 2

\* C30: for a fixed package map, mode and partition with each package in one
\* level, the set of violation messages CheckLevels returns does not depend
\* on the order of the packages inside a level nor on the order of the
\* entries of a package's Imports list.
C30_MessagesIndependentOfOrder ==
    (pc = "done" /\ EachPackageInOneLevel(result)) =>
        \A pm \in ReorderedImports(packageMap, DOMAIN packageMap) :
            \A p \in ReorderedLevels(result, 1) :
                MessagesOf(CheckLevelsIn(pm, p, strict)) = Messages

====
